---- MODULE Spec2Model ----
(***************************************************************************)
(* Model of the binary stream Reader of package bin (peek/read merge       *)
(* protocol, typed reads, Discard, Reset) over a partial-read-capable      *)
(* byte source.                                                            *)
(*                                                                         *)
(* A Reader is the record of its fields (source, pos, bo, peekBuffer,      *)
(* nPeeked, peekPos).  Every method is an operator from a Reader record    *)
(* and the call's arguments to a call result                               *)
(*     [b |-> Reader after the call, err |-> returned error,               *)
(*      out |-> bytes the call copied to its destination,                  *)
(*      val |-> decoded value of a typed read]                             *)
(* and one action applies it to the state.  The scratch fields of          *)
(* tmpBuffers (_1kb, i, i64, err) are written before they are read in      *)
(* every method, so they carry nothing from one call to the next and are   *)
(* locals of the operators.                                                *)
(***************************************************************************)
EXTENDS Integers, Sequences, FiniteSets, TLC

VARIABLES
    source,      \* Reader.source: the bound byte source (NilSource when unset)
    pos,         \* binaryBase.pos
    bo,          \* binaryBase.bo: "LE", "BE" or "nil"
    peekBuffer,  \* Reader.peekBuffer
    nPeeked,     \* Reader.nPeeked
    peekPos,     \* Reader.peekPos
    last,        \* history: the most recent call, its arguments and results
    delivered,   \* history: bytes handed out by real reads since NewReader/Reset
    total,       \* history: sum of the byte counts of the real reads while every
                 \* call since NewReader succeeded; Unclean after a failed call,
                 \* a Reset or a use of Read
    view,        \* history: longest successful Peek result since the last real read
    resets       \* history: number of Reset calls so far

VARIABLES
    dest,        \* Writer.dest: the bound sink and the bytes it has accepted
                 \* (NilSink when unset)
    wpos,        \* the Writer's binaryBase.pos
    wbo,         \* the Writer's binaryBase.bo
    wlast,       \* history: the most recent call on the Writer
    accepted     \* history: sum of the counts the sink returned since
                 \* NewWriter or the last Reset of the Writer

rvars == <<source, pos, bo, peekBuffer, nPeeked, peekPos,
           last, delivered, total, view, resets>>

wvars == <<dest, wpos, wbo, wlast, accepted>>

vars == <<source, pos, bo, peekBuffer, nPeeked, peekPos,
          last, delivered, total, view, resets,
          dest, wpos, wbo, wlast, accepted>>

----------------------------------------------------------------------------
(* Bounds of the model *)

\* longest finite source stream
MaxSrc == 4
\* longest destination handed to ReadBytes, Peek, Read, and largest Discard
MaxLen == 3
\* largest number of Reset calls in one run
MaxResets == 1
\* longest stream a Reset binds
MaxResetSrc == 1
\* length of the stream of the wide runs
WideSrc == 9
\* largest capacity of a sink that runs full
MaxRoom == 2
\* number of bytes in the sink from which on a run writes no more
MaxSink == 3

(* Program constants *)

\* NewReader: peekBuffer is make([]byte, 64); Peek grows by at least 64
PeekBufInit == 64
PeekGrowMin == 64
\* Discard works through the 1024-byte scratch buffer _1kb
ScratchLen == 1024
\* len(null1kb), the chunk of ZeroFill
FillChunk == 1024

----------------------------------------------------------------------------
(* Values *)

Nil == "nil"
EOF == "EOF"
ErrUnexpectedEOF == "ErrUnexpectedEOF"
ErrNilReader == "reader is nil"
ErrByteOrder == "ByteOrder is not set"

ByteOrders == {"LE", "BE"}

Min(a, b) == IF a < b THEN a ELSE b

Zeros(n) == [i \in 1..n |-> 0]

Reverse(s) == [i \in 1..Len(s) |-> s[Len(s) + 1 - i]]

\* a copy that lands at the start of the buffer whatever the index
CopyAtStart(buf, at, bytes) ==
    [i \in 1..Len(buf) |-> IF i <= Len(bytes) THEN bytes[i] ELSE buf[i]]

\* copy(buf[at:], bytes): buf with bytes written from 0-based index `at`
CopyInto(buf, at, bytes) ==
    [i \in 1..Len(buf) |->
        IF i > at /\ i <= at + Len(bytes) THEN bytes[i - at] ELSE buf[i]]

----------------------------------------------------------------------------
(* The byte source: an io.Reader over a finite stream.  Stream `id` holds  *)
(* `len` bytes, the i-th being ByteAt(id, i); `off` bytes were handed out. *)
(* A Read call may hand out fewer bytes than asked for (a partial read):   *)
(* `chunk` is the most it hands out per Read, chosen anew by the           *)
(* environment for every call on the Reader.                               *)

NilSource == [kind |-> "nil", id |-> 0, len |-> 0, off |-> 0, chunk |-> 1]

ByteAt(id, i) == (id * 64 + i) % 256

Stream(id, len) ==
    [kind |-> "bytes", id |-> id, len |-> len, off |-> 0, chunk |-> 1]

\* bytes.NewReader(data): a source over the bytes of a slice
Held(data) ==
    [kind |-> "held", id |-> 0, len |-> Len(data), off |-> 0, chunk |-> 1,
     data |-> data]

\* the i-th byte of the stream behind source s
SrcByte(s, i) == IF s.kind = "held" THEN s.data[i] ELSE ByteAt(s.id, i)

SrcData(s) == [i \in 1..s.len |-> SrcByte(s, i)]

\* source.Read(p) with len(p) = n
SrcRead(s, n) ==
    IF s.off >= s.len
    THEN [s |-> s, n |-> 0, err |-> EOF, bytes |-> <<>>]
    ELSE LET k == Min(n, Min(s.chunk, s.len - s.off)) IN
         [s |-> [s EXCEPT !.off = @ + k], n |-> k, err |-> Nil,
          bytes |-> [i \in 1..k |-> SrcByte(s, s.off + i)]]

\* io.ReadAtLeast(source, buf, min) with len(buf) = min; got = bytes so far
RECURSIVE ReadAtLeast(_, _, _)
ReadAtLeast(s, min, got) ==
    IF Len(got) >= min
    THEN [s |-> s, n |-> Len(got), err |-> Nil, bytes |-> got]
    ELSE LET x == SrcRead(s, min - Len(got))
             all == got \o x.bytes
         IN IF x.err = Nil
            THEN ReadAtLeast(x.s, min, all)
            ELSE [s |-> x.s, n |-> Len(all), bytes |-> all,
                  err |-> IF Len(all) >= min THEN Nil
                          ELSE IF Len(all) > 0 /\ x.err = EOF
                               THEN ErrUnexpectedEOF
                               ELSE x.err]

\* a single Read call taken for a full read: a short count without an error
ReadOnce(s, n) ==
    LET x == SrcRead(s, n)
    IN [s |-> x.s, n |-> x.n, bytes |-> x.bytes,
        err |-> IF x.n = 0 THEN x.err ELSE Nil]

\* io.ReadFull(source, buf) with len(buf) = n
ReadFull(s, n) == ReadAtLeast(s, n, <<>>)

----------------------------------------------------------------------------
(* Reader *)

\* the Reader of the current state
Self ==
    [source |-> source, pos |-> pos, bo |-> bo, peekBuffer |-> peekBuffer,
     nPeeked |-> nPeeked, peekPos |-> peekPos]

\* the Reader of the next state
SelfNext ==
    [source |-> source', pos |-> pos', bo |-> bo', peekBuffer |-> peekBuffer',
     nPeeked |-> nPeeked', peekPos |-> peekPos']

\* the Reader of the current state, its source handing out at most c bytes per Read
SelfChunk(c) == [Self EXCEPT !.source.chunk = c]

Result(b, err, out) == [b |-> b, err |-> err, out |-> out, val |-> <<>>]

\* the peeked count with the consumed offset forgotten
numPeekedBytes(b) == b.nPeeked

numUnusedPeekedBytes(b) == b.nPeeked - b.peekPos

\* the merge count without the bytes taken from the peek buffer
sourceCount(b, n) == n

\* the count with the bytes from the peek buffer taken off
unmergedCount(b, n) == n - (b.nPeeked - b.peekPos)

\* b.i += (b.nPeeked - b.peekPos): bytes from the source plus bytes from the peek buffer
mergedCount(b, n) == n + (b.nPeeked - b.peekPos)

\* a ReadBytes that takes the empty destination before it looks at the source
ReadBytesEmptyFirst(b, L) ==
    IF L = 0 THEN Result(b, Nil, <<>>)
    ELSE IF b.source.kind = "nil" THEN Result(b, ErrNilReader, <<>>)
    ELSE LET rf == ReadFull(b.source, L)
         IN Result([b EXCEPT !.source = rf.s, !.pos = @ + rf.n], rf.err, rf.bytes)

\* ReadBytes as it was before Peek existed: straight from the source
ReadBytesDirect(b, L) ==
    IF b.source.kind = "nil" THEN Result(b, ErrNilReader, <<>>)
    ELSE LET rf == ReadFull(b.source, L)
         IN Result([b EXCEPT !.source = rf.s, !.pos = @ + rf.n], rf.err, rf.bytes)

\* a ReadBytes that gives up the whole peek buffer once it has served a
\* read from it
ReadBytesDrain(b, L) ==
    IF b.source.kind = "nil" THEN Result(b, ErrNilReader, <<>>)
    ELSE IF L = 0 THEN Result(b, Nil, <<>>)
    ELSE IF numUnusedPeekedBytes(b) > 0
    THEN IF numUnusedPeekedBytes(b) >= L
         THEN Result([b EXCEPT !.peekPos = b.nPeeked, !.pos = @ + L], Nil,
                     SubSeq(b.peekBuffer, b.peekPos + 1, b.peekPos + L))
         ELSE LET rf == ReadFull(b.source, L - numUnusedPeekedBytes(b))
                  i == mergedCount(b, rf.n)
              IN Result([b EXCEPT !.source = rf.s, !.peekPos = b.nPeeked,
                                  !.pos = @ + i],
                        rf.err,
                        SubSeq(b.peekBuffer, b.peekPos + 1, b.nPeeked) \o rf.bytes)
    ELSE LET rf == ReadFull(b.source, L)
         IN Result([b EXCEPT !.source = rf.s, !.pos = @ + rf.n], rf.err, rf.bytes)

\* a ReadBytes that asks the source for the whole length when it merges
ReadBytesOverfetch(b, L) ==
    IF b.source.kind = "nil" THEN Result(b, ErrNilReader, <<>>)
    ELSE IF L = 0 THEN Result(b, Nil, <<>>)
    ELSE IF numUnusedPeekedBytes(b) > 0
    THEN IF numUnusedPeekedBytes(b) >= L
         THEN Result([b EXCEPT !.peekPos = @ + L, !.pos = @ + L], Nil,
                     SubSeq(b.peekBuffer, b.peekPos + 1, b.peekPos + L))
         ELSE LET rf == ReadFull(b.source, L)
                  k == Min(rf.n, L - numUnusedPeekedBytes(b))
              IN Result([b EXCEPT !.source = rf.s, !.peekPos = b.nPeeked,
                                  !.pos = @ + mergedCount(b, k)],
                        rf.err,
                        SubSeq(b.peekBuffer, b.peekPos + 1, b.nPeeked)
                           \o SubSeq(rf.bytes, 1, k))
    ELSE LET rf == ReadFull(b.source, L)
         IN Result([b EXCEPT !.source = rf.s, !.pos = @ + rf.n], rf.err, rf.bytes)

ReadBytes(b, L) ==
    IF b.source.kind = "nil" THEN Result(b, ErrNilReader, <<>>)
    ELSE IF L = 0 THEN Result(b, Nil, <<>>)
    ELSE IF numUnusedPeekedBytes(b) > 0
    THEN IF numUnusedPeekedBytes(b) >= L
         THEN Result([b EXCEPT !.peekPos = @ + L, !.pos = @ + L], Nil,
                     SubSeq(b.peekBuffer, b.peekPos + 1, b.peekPos + L))
         ELSE LET rf == ReadFull(b.source, L - numUnusedPeekedBytes(b))
                  i == mergedCount(b, rf.n)
              IN Result([b EXCEPT !.source = rf.s, !.peekPos = b.nPeeked,
                                  !.pos = @ + i],
                        rf.err,
                        SubSeq(b.peekBuffer, b.peekPos + 1, b.nPeeked) \o rf.bytes)
    ELSE LET rf == ReadFull(b.source, L)
         IN Result([b EXCEPT !.source = rf.s, !.pos = @ + rf.n], rf.err, rf.bytes)

ReadByte(b) == ReadBytes(b, 1)

\* Read(p) with len(p) = n: one call of source.Read, the peek buffer is not consulted
Read(b, n) ==
    LET x == SrcRead(b.source, n)
    IN Result([b EXCEPT !.source = x.s, !.pos = @ + x.n], x.err, x.bytes)

\* a decoder that takes every byte sequence as big-endian
UintBig(order, bytes) == bytes

\* bo.Uint16/32/64 of the bytes: the value as base-256 digits, most significant first
Uint(order, bytes) == IF order = "LE" THEN Reverse(bytes) ELSE bytes

\* a typed read that takes its bytes from the source without looking at the
\* peeked ones
ReadTypedDirect(b, w) ==
    IF b.source.kind = "nil" THEN Result(b, ErrNilReader, <<>>)
    ELSE IF b.bo = Nil THEN Result(b, ErrByteOrder, <<>>)
    ELSE LET x == Read(b, w)
         IN IF x.err # Nil THEN x ELSE [x EXCEPT !.val = Uint(b.bo, x.out)]

ReadTyped(b, w) ==
    IF b.source.kind = "nil" THEN Result(b, ErrNilReader, <<>>)
    ELSE IF b.bo = Nil THEN Result(b, ErrByteOrder, <<>>)
    ELSE LET x == ReadBytes(b, w)
         IN IF x.err # Nil THEN x ELSE [x EXCEPT !.val = Uint(b.bo, x.out)]

ReadUint16(b) == ReadTyped(b, 2)
ReadUint32(b) == ReadTyped(b, 4)
ReadUint64(b) == ReadTyped(b, 8)
\* math.Float32frombits / Float64frombits reinterpret the bit pattern
ReadFloat32(b) == ReadTyped(b, 4)
ReadFloat64(b) == ReadTyped(b, 8)

\* a result together with the lengths of the ReadBytes calls that led to it
Traced(res, lens) ==
    [b |-> res.b, err |-> res.err, out |-> res.out, val |-> res.val,
     lens |-> lens]

\* a chunk loop that does not count the bytes of the chunk that failed
RECURSIVE DiscardLoopRollback(_, _)
DiscardLoopRollback(x, i64) ==
    LET y == ReadBytes(x.b, Min(i64, ScratchLen))
        z == [y EXCEPT !.out = x.out \o y.out]
    IN IF y.err # Nil THEN [z EXCEPT !.b.pos = x.b.pos]
       ELSE IF i64 > ScratchLen THEN DiscardLoopRollback(z, i64 - ScratchLen)
       ELSE z

\* the chunk loop of Discard: x is the result so far, i64 the bytes still to drop
RECURSIVE DiscardLoop(_, _)
DiscardLoop(x, i64) ==
    IF i64 > ScratchLen
    THEN LET y == ReadBytes(x.b, ScratchLen)
             z == Traced([y EXCEPT !.out = x.out \o y.out],
                         Append(x.lens, ScratchLen))
         IN IF y.err # Nil THEN z ELSE DiscardLoop(z, i64 - ScratchLen)
    ELSE LET y == ReadBytes(x.b, i64)
         IN Traced([y EXCEPT !.out = x.out \o y.out], Append(x.lens, i64))

\* a Discard that fills the scratch buffer once
DiscardOneChunk(b, n) ==
    IF b.source.kind = "nil" THEN Result(b, ErrNilReader, <<>>)
    ELSE ReadBytes(b, Min(n, ScratchLen))

\* a Discard that reads all n bytes with one ReadBytes call
DiscardAtOnce(b, n) ==
    IF b.source.kind = "nil" THEN Traced(Result(b, ErrNilReader, <<>>), <<>>)
    ELSE Traced(ReadBytes(b, n), <<n>>)

Discard(b, n) ==
    IF b.source.kind = "nil" THEN Traced(Result(b, ErrNilReader, <<>>), <<>>)
    ELSE IF n <= ScratchLen THEN Traced(ReadBytes(b, n), <<n>>)
    ELSE DiscardLoop(Traced(Result(b, Nil, <<>>), <<>>), n)

\* a Peek that consumes what it returns
PeekConsuming(b, L) == ReadBytes(b, L)

\* a Peek without a buffer: every call fetches from the source
PeekFromSource(b, L) ==
    IF b.source.kind = "nil" THEN Result(b, ErrNilReader, <<>>)
    ELSE LET rf == ReadFull(b.source, L)
         IN Result([b EXCEPT !.source = rf.s], rf.err, rf.bytes)

\* a growth by the missing amount alone, without the least increment
growExact(buf, grow) == IF grow > 0 THEN buf \o Zeros(grow) ELSE buf

\* the peek buffer made `grow` bytes longer, by PeekGrowMin bytes at least,
\* when grow > 0
growBuffer(buf, grow) ==
    IF grow > 0
    THEN IF grow <= PeekGrowMin THEN buf \o Zeros(PeekGrowMin)
                                ELSE buf \o Zeros(grow)
    ELSE buf

\* a fetch that lays the new bytes over the ones still pending
PeekFetchOver(b, L) ==
    LET unused == numUnusedPeekedBytes(b)
        front == SubSeq(b.peekBuffer, b.peekPos + 1, b.nPeeked)
        nRead == L - unused
        grown == growBuffer(b.peekBuffer, (b.nPeeked + nRead) - Len(b.peekBuffer))
        rf == ReadFull(b.source, nRead)
        filled == CopyInto(grown, b.peekPos, rf.bytes)
    IN IF rf.err # Nil
       THEN Result([b EXCEPT !.source = rf.s, !.peekBuffer = filled],
                   rf.err, front)
       ELSE Result([b EXCEPT !.source = rf.s, !.peekBuffer = filled,
                             !.nPeeked = @ + nRead],
                   Nil, front \o rf.bytes)

\* Peek with fewer than L bytes pending: the missing bytes are fetched from
\* the source into the peek buffer, behind the bytes fetched before
PeekFetch(b, L) ==
    LET unused == numUnusedPeekedBytes(b)
        front == SubSeq(b.peekBuffer, b.peekPos + 1, b.nPeeked)
        nRead == L - unused
        grown == growBuffer(b.peekBuffer, (b.nPeeked + nRead) - Len(b.peekBuffer))
        rf == ReadFull(b.source, nRead)
        filled == CopyInto(grown, b.nPeeked, rf.bytes)
    IN IF rf.err # Nil
       THEN Result([b EXCEPT !.source = rf.s, !.peekBuffer = filled],
                   rf.err, front)
       ELSE Result([b EXCEPT !.source = rf.s, !.peekBuffer = filled,
                             !.nPeeked = @ + nRead],
                   Nil,
                   front \o SubSeq(filled, b.nPeeked + 1, b.nPeeked + nRead))

\* a Peek that moves on past the pending bytes it hands out
PeekAdvances(b, L) ==
    IF b.source.kind = "nil" THEN Result(b, ErrNilReader, <<>>)
    ELSE IF L = 0 THEN Result(b, Nil, <<>>)
    ELSE IF numUnusedPeekedBytes(b) > 0 /\ numUnusedPeekedBytes(b) >= L
    THEN Result([b EXCEPT !.peekPos = @ + L], Nil,
                SubSeq(b.peekBuffer, b.peekPos + 1, b.peekPos + L))
    ELSE PeekFetch(b, L)

Peek(b, L) ==
    IF b.source.kind = "nil" THEN Result(b, ErrNilReader, <<>>)
    ELSE IF L = 0 THEN Result(b, Nil, <<>>)
    ELSE IF numUnusedPeekedBytes(b) > 0 /\ numUnusedPeekedBytes(b) >= L
    THEN Result(b, Nil, SubSeq(b.peekBuffer, b.peekPos + 1, b.peekPos + L))
    ELSE PeekFetch(b, L)

\* a Reset that leaves the peek state of the old source in place
ResetKeepsPeek(b, src, order) ==
    [b EXCEPT !.pos = 0, !.source = src, !.bo = order]

\* a Reset that forgets the fetched bytes but not how many were consumed
ResetHalf(b, src, order) ==
    [b EXCEPT !.pos = 0, !.source = src, !.bo = order, !.nPeeked = 0]

Reset(b, src, order) ==
    [b EXCEPT !.pos = 0, !.source = src, !.bo = order,
              !.peekPos = 0, !.nPeeked = 0]

NewReader(src, order) ==
    [source |-> src, pos |-> 0, bo |-> order, peekBuffer |-> Zeros(PeekBufInit),
     nPeeked |-> 0, peekPos |-> 0]

\* the zero value Reader{}: no source, no byte order, no peek buffer
ZeroReader ==
    [source |-> NilSource, pos |-> 0, bo |-> Nil, peekBuffer |-> <<>>,
     nPeeked |-> 0, peekPos |-> 0]

\* a SetByteOrder that also drops the bytes fetched by Peek
SetByteOrderFlush(b, order) == [b EXCEPT !.bo = order, !.peekPos = b.nPeeked]

SetByteOrder(b, order) == [b EXCEPT !.bo = order]

GetByteOrder(b) == b.bo

GetPosition(b) == b.pos

NewReaderBytes(data, order) == NewReader(Held(data), order)

----------------------------------------------------------------------------
(* Sinks: a sink is the record of its behaviour and of the bytes it has    *)
(* accepted.  A "buffer" accepts everything; a "limited" sink accepts      *)
(* `room` bytes in all and reports an error with the count of the bytes    *)
(* that still fitted; a "short" sink accepts at most `per` bytes in one    *)
(* call and reports no error.                                              *)

ErrSink == "sink error"
ErrNilWriter == "writer is nil"
ErrNegative == "negative length"

NilSink == [kind |-> "nil", data |-> <<>>, room |-> 0, per |-> 0]

Buffer == [kind |-> "buffer", data |-> <<>>, room |-> 0, per |-> 0]

Limited(room) == [kind |-> "limited", data |-> <<>>, room |-> room, per |-> 0]

Short(per) == [kind |-> "short", data |-> <<>>, room |-> 0, per |-> per]

\* dest.Write(p): the sink after the call, the count and the error it returns
DestWrite(d, p) ==
    LET k == IF d.kind = "limited" THEN Min(Len(p), d.room - Len(d.data))
             ELSE IF d.kind = "short" THEN Min(Len(p), d.per)
             ELSE Len(p)
    IN [d |-> [d EXCEPT !.data = @ \o SubSeq(p, 1, k)],
        n |-> k,
        err |-> IF d.kind = "limited" /\ k < Len(p) THEN ErrSink ELSE Nil]

----------------------------------------------------------------------------
(* Writer: the record of its fields (dest, pos, bo).  Every method is an   *)
(* operator from a Writer record and the call's arguments to a call result *)
(*     [w |-> Writer after the call, err |-> returned error,               *)
(*      n |-> bytes the sink reported as accepted during the call,         *)
(*      calls |-> number of calls of dest.Write]                           *)

\* the Writer of the current state
WSelf == [dest |-> dest, pos |-> wpos, bo |-> wbo]

WResult(w, err, n, calls) == [w |-> w, err |-> err, n |-> n, calls |-> calls]

\* a WriteBytes that sends the rest again until the sink has taken it all
RECURSIVE WriteBytesAll(_, _)
WriteBytesAll(w, src) ==
    IF w.dest.kind = "nil" THEN WResult(w, ErrNilWriter, 0, 0)
    ELSE IF Len(src) = 0 THEN WResult(w, Nil, 0, 0)
    ELSE LET x == DestWrite(w.dest, src)
             w1 == [w EXCEPT !.dest = x.d, !.pos = @ + x.n]
         IN IF x.err # Nil \/ x.n = 0 \/ x.n >= Len(src)
            THEN WResult(w1, x.err, x.n, 1)
            ELSE LET y == WriteBytesAll(w1, SubSeq(src, x.n + 1, Len(src)))
                 IN WResult(y.w, y.err, x.n + y.n, 1 + y.calls)

\* a WriteBytes that counts the bytes offered instead of the bytes accepted
WriteBytesOffered(w, src) ==
    IF w.dest.kind = "nil" THEN WResult(w, ErrNilWriter, 0, 0)
    ELSE IF Len(src) = 0 THEN WResult(w, Nil, 0, 0)
    ELSE LET x == DestWrite(w.dest, src)
         IN WResult([w EXCEPT !.dest = x.d, !.pos = @ + Len(src)], x.err, x.n, 1)

\* a WriteBytes that does not look whether a sink is bound
WriteBytesBlind(w, src) ==
    IF Len(src) = 0 THEN WResult(w, Nil, 0, 0)
    ELSE LET x == DestWrite(w.dest, src)
         IN WResult([w EXCEPT !.dest = x.d, !.pos = @ + x.n], x.err, x.n, 1)

WriteBytes(w, src) ==
    IF w.dest.kind = "nil" THEN WResult(w, ErrNilWriter, 0, 0)
    ELSE IF Len(src) = 0 THEN WResult(w, Nil, 0, 0)
    ELSE LET x == DestWrite(w.dest, src)
         IN WResult([w EXCEPT !.dest = x.d, !.pos = @ + x.n], x.err, x.n, 1)

WriteByte(w, c) ==
    IF w.dest.kind = "nil" THEN WResult(w, ErrNilWriter, 0, 0)
    ELSE WriteBytes(w, <<c>>)

\* Write(p): one call of dest.Write unless p is empty
Write(w, p) ==
    IF Len(p) = 0 THEN WResult(w, Nil, 0, 0)
    ELSE LET x == DestWrite(w.dest, p)
         IN WResult([w EXCEPT !.dest = x.d, !.pos = @ + x.n], x.err, x.n, 1)

\* bo.PutUint16/32/64 of a value given as base-256 digits, most significant first
\* an encoder that lays every value out big-endian
PutUintBig(order, val) == val

PutUint(order, val) == IF order = "LE" THEN Reverse(val) ELSE val

\* a typed write that looks at the byte order only after it has written
WriteTypedLate(w, val) ==
    IF w.dest.kind = "nil" THEN WResult(w, ErrNilWriter, 0, 0)
    ELSE LET x == WriteBytes(w, val)
         IN IF w.bo = Nil THEN [x EXCEPT !.err = ErrByteOrder] ELSE x

WriteTyped(w, val) ==
    IF w.dest.kind = "nil" THEN WResult(w, ErrNilWriter, 0, 0)
    ELSE IF w.bo = Nil THEN WResult(w, ErrByteOrder, 0, 0)
    ELSE WriteBytes(w, PutUint(w.bo, val))

WriteUint16(w, val) == WriteTyped(w, val)
WriteUint32(w, val) == WriteTyped(w, val)
WriteUint64(w, val) == WriteTyped(w, val)
\* math.Float32bits / Float64bits hand over the bit pattern
WriteFloat32(w, val) == WriteTyped(w, val)
WriteFloat64(w, val) == WriteTyped(w, val)

\* the chunk loop of ZeroFill: x is the result so far, i64 the bytes still to write
\* a result together with the lengths of the WriteBytes calls that led to it
WTraced(res, lens) ==
    [w |-> res.w, err |-> res.err, n |-> res.n, calls |-> res.calls,
     lens |-> lens]

RECURSIVE ZeroFillLoop(_, _)
ZeroFillLoop(x, i64) ==
    LET k == IF i64 > FillChunk THEN FillChunk ELSE i64
        y == WriteBytes(x.w, Zeros(k))
        z == WTraced([y EXCEPT !.n = x.n + y.n, !.calls = x.calls + y.calls],
                     Append(x.lens, k))
    IN IF i64 > FillChunk /\ y.err = Nil
       THEN ZeroFillLoop(z, i64 - FillChunk)
       ELSE z

\* a ZeroFill that writes the last chunk in full
ZeroFillWhole(w, n) ==
    IF w.dest.kind = "nil" THEN WResult(w, ErrNilWriter, 0, 0)
    ELSE IF n < 0 THEN WResult(w, ErrNegative, 0, 0)
    ELSE IF n = 0 THEN WResult(w, Nil, 0, 0)
    ELSE IF n <= FillChunk THEN WriteBytes(w, Zeros(n))
    ELSE ZeroFillLoop(WTraced(WResult(w, Nil, 0, 0), <<>>),
                      n + FillChunk - (n % FillChunk))

\* a ZeroFill that takes a negative length for an empty one
ZeroFillLenient(w, n) ==
    IF w.dest.kind = "nil" THEN WResult(w, ErrNilWriter, 0, 0)
    ELSE IF n <= 0 THEN WResult(w, Nil, 0, 0)
    ELSE IF n <= FillChunk THEN WriteBytes(w, Zeros(n))
    ELSE ZeroFillLoop(WTraced(WResult(w, Nil, 0, 0), <<>>), n)

ZeroFill(w, n) ==
    IF w.dest.kind = "nil" THEN WTraced(WResult(w, ErrNilWriter, 0, 0), <<>>)
    ELSE IF n < 0 THEN WTraced(WResult(w, ErrNegative, 0, 0), <<>>)
    ELSE IF n = 0 THEN WTraced(WResult(w, Nil, 0, 0), <<>>)
    ELSE IF n <= FillChunk THEN WTraced(WriteBytes(w, Zeros(n)), <<n>>)
    ELSE ZeroFillLoop(WTraced(WResult(w, Nil, 0, 0), <<>>), n)

\* a Reset that rebinds the sink and the byte order but keeps the position
WriterResetKeepsPos(w, d, order) == [w EXCEPT !.dest = d, !.bo = order]

WriterReset(w, d, order) == [w EXCEPT !.pos = 0, !.dest = d, !.bo = order]

NewWriter(d, order) == [dest |-> d, pos |-> 0, bo |-> order]

\* the zero value Writer{}: no sink, no byte order
ZeroWriter == [dest |-> NilSink, pos |-> 0, bo |-> Nil]

----------------------------------------------------------------------------
(* The state machine *)

Sources(id, max) == {Stream(id, len) : len \in 0..max}

\* the most bytes a source hands over in one Read call, per call on the Reader
Chunks == {1, 2}

Unclean == [clean |-> FALSE, sum |-> 0]

RealReads ==
    {"ReadByte", "ReadBytes", "ReadUint16", "ReadUint32", "ReadUint64",
     "ReadFloat32", "ReadFloat64", "Discard"}

(* The record of a call: its name and length argument, the returned error, *)
(* the bytes and the value it delivered, and what it found: the position,  *)
(* the number of pending peeked bytes, the bytes left in the source, the   *)
(* byte order (for Reset and SetByteOrder: the one passed), and whether it *)
(* was the first call on a newly built Reader.                             *)
NoCall == [op |-> "none", n |-> 0, err |-> Nil, out |-> <<>>, val |-> <<>>,
           pos0 |-> 0, pend0 |-> 0, rem0 |-> 0, bo |-> Nil, first |-> FALSE]

\* the record of a call `op` with length `n` and result `res`, made in this state
Call(op, n, res) ==
    [op |-> op, n |-> n, err |-> res.err, out |-> res.out, val |-> res.val,
     pos0 |-> pos, pend0 |-> nPeeked - peekPos,
     rem0 |-> source.len - source.off, bo |-> bo,
     first |-> last.op = "NewReader"]

(* The record of a call on the Writer: its name and length argument, the    *)
(* returned error, the bytes the sink accepted and the calls of dest.Write *)
(* it made, and what it found: the position, the byte order (for Reset and *)
(* SetByteOrder: the one passed) and the number of bytes in the sink; for  *)
(* a typed write, the value handed to it.                                  *)
NoWrite == [op |-> "none", n |-> 0, err |-> Nil, cnt |-> 0, calls |-> 0,
            pos0 |-> 0, bo |-> Nil, len0 |-> 0, val |-> <<>>]

WCall(op, n, res) ==
    [op |-> op, n |-> n, err |-> res.err, cnt |-> res.n, calls |-> res.calls,
     pos0 |-> wpos, bo |-> wbo, len0 |-> Len(dest.data), val |-> <<>>]

\* a run is over one Reader or over one Writer: the other is never built
NoWriter ==
    /\ dest = NilSink /\ wpos = 0 /\ wbo = Nil
    /\ wlast = NoWrite /\ accepted = 0

Install(b) ==
    /\ last.op # "none"
    /\ UNCHANGED wvars
    /\ source' = [b.source EXCEPT !.chunk = 1]
    /\ pos' = b.pos
    /\ bo' = b.bo
    /\ peekBuffer' = b.peekBuffer
    /\ nPeeked' = b.nPeeked
    /\ peekPos' = b.peekPos

\* the state after the construction of one of `readers`
Start(readers) ==
    /\ \E b \in readers :
          /\ source = b.source
          /\ pos = b.pos
          /\ bo = b.bo
          /\ peekBuffer = b.peekBuffer
          /\ nPeeked = b.nPeeked
          /\ peekPos = b.peekPos
          /\ last = [NoCall EXCEPT !.op = IF b.peekBuffer = <<>> THEN "Reader{}"
                                                               ELSE "NewReader"]
    /\ delivered = <<>>
    /\ total = [clean |-> TRUE, sum |-> 0]
    /\ view = <<>>
    /\ resets = 0
    /\ NoWriter

Init ==
    Start({NewReader(s, o) : s \in Sources(1, MaxSrc) \cup {NilSource},
                             o \in ByteOrders \cup {Nil}}
          \cup {ZeroReader})

\* a Reader over one stream long enough for the 8-byte reads
InitWide == Start({NewReader(Stream(1, WideSrc), o) : o \in ByteOrders})

\* a real read `op` asking for `n` bytes, with result `res`
RealRead(op, n, res) ==
    /\ Install(res.b)
    /\ last' = Call(op, n, res)
    /\ delivered' = delivered \o res.out
    /\ total' = IF total.clean /\ res.err = Nil THEN [total EXCEPT !.sum = @ + n]
                                              ELSE Unclean
    /\ view' = <<>>
    /\ UNCHANGED resets

DoReadByte == \E c \in Chunks : RealRead("ReadByte", 1, ReadByte(SelfChunk(c)))

DoReadBytes ==
    \E c \in Chunks, L \in 0..MaxLen :
        RealRead("ReadBytes", L, ReadBytes(SelfChunk(c), L))

DoReadUint16 == \E c \in Chunks : RealRead("ReadUint16", 2, ReadUint16(SelfChunk(c)))

DoReadUint32 == \E c \in Chunks : RealRead("ReadUint32", 4, ReadUint32(SelfChunk(c)))

DoReadUint64 == \E c \in Chunks : RealRead("ReadUint64", 8, ReadUint64(SelfChunk(c)))

DoReadFloat32 == \E c \in Chunks : RealRead("ReadFloat32", 4, ReadFloat32(SelfChunk(c)))

DoReadFloat64 == \E c \in Chunks : RealRead("ReadFloat64", 8, ReadFloat64(SelfChunk(c)))

DoDiscard ==
    \E c \in Chunks, n \in 0..MaxLen :
        RealRead("Discard", n, Discard(SelfChunk(c), n))

\* Read on an unset source dereferences a nil interface and aborts the program
DoRead ==
    /\ source.kind # "nil"
    /\ \E c \in Chunks, n \in 0..MaxLen :
          LET res == Read(SelfChunk(c), n) IN
          /\ Install(res.b)
          /\ last' = Call("Read", n, res)
          /\ delivered' = delivered \o res.out
          /\ total' = Unclean
          /\ view' = <<>>
          /\ UNCHANGED resets

DoPeek ==
    \E c \in Chunks, L \in 0..MaxLen :
        LET res == Peek(SelfChunk(c), L) IN
        /\ Install(res.b)
        /\ last' = Call("Peek", L, res)
        /\ total' = IF res.err = Nil THEN total ELSE Unclean
        /\ view' = IF res.err = Nil /\ Len(res.out) > Len(view) THEN res.out ELSE view
        /\ UNCHANGED <<delivered, resets>>

\* the new source is a fresh stream whose bytes all differ from the old one's
DoReset ==
    /\ resets < MaxResets
    /\ \E s \in Sources(IF source.id = 1 THEN 2 ELSE 1, MaxResetSrc) \cup {NilSource},
          o \in ByteOrders \cup {Nil} :
        /\ Install(Reset(Self, s, o))
        /\ last' = [Call("Reset", 0, Result(Self, Nil, <<>>)) EXCEPT !.bo = o]
        /\ delivered' = <<>>
        /\ total' = Unclean
        /\ view' = <<>>
        /\ resets' = resets + 1

DoSetByteOrder ==
    \E o \in ByteOrders \cup {Nil} :
        /\ Install(SetByteOrder(Self, o))
        /\ last' = [Call("SetByteOrder", 0, Result(Self, Nil, <<>>)) EXCEPT !.bo = o]
        /\ UNCHANGED <<delivered, total, view, resets>>

\* the peek-aware interface of the Reader
Next ==
    \/ DoReadByte
    \/ DoReadBytes
    \/ DoReadUint16
    \/ DoReadUint32
    \/ DoReadUint64
    \/ DoReadFloat32
    \/ DoReadFloat64
    \/ DoDiscard
    \/ DoPeek
    \/ DoReset
    \/ DoSetByteOrder

Spec == Init /\ [][Next]_vars

\* the same with the io.Reader method Read
NextIO == Next \/ DoRead

SpecIO == Init /\ [][NextIO]_vars

----------------------------------------------------------------------------
(* The state machine of the Writer *)

Sinks == {Buffer, Short(1)} \cup {Limited(r) : r \in 0..MaxRoom}

\* the bytes handed to WriteByte, WriteBytes and Write
Payload(n) == [i \in 1..n |-> i]

\* the value handed to a typed write of `w` bytes, as base-256 digits
Value(w) == [i \in 1..w |-> 16 * i]

NoReader ==
    /\ source = NilSource /\ pos = 0 /\ bo = Nil
    /\ peekBuffer = <<>> /\ nPeeked = 0 /\ peekPos = 0
    /\ last = NoCall /\ delivered = <<>> /\ total = Unclean
    /\ view = <<>> /\ resets = 0

WInstall(w) ==
    /\ last.op = "none"
    /\ UNCHANGED rvars
    /\ dest' = w.dest
    /\ wpos' = w.pos
    /\ wbo' = w.bo

\* the state after the construction of one of `writers`
StartW(writers) ==
    /\ \E w \in writers :
          /\ dest = w.dest
          /\ wpos = w.pos
          /\ wbo = w.bo
          /\ wlast = [NoWrite EXCEPT !.op = IF w = ZeroWriter THEN "Writer{}"
                                                             ELSE "NewWriter"]
    /\ accepted = 0
    /\ NoReader

InitW ==
    StartW({NewWriter(d, o) : d \in Sinks \cup {NilSink}, o \in ByteOrders \cup {Nil}}
           \cup {ZeroWriter})

\* a write `op` with length argument `n` and result `res`; the sink is not
\* written to any more once it holds MaxSink bytes
WStep(op, n, res) ==
    /\ Len(dest.data) < MaxSink
    /\ WInstall(res.w)
    /\ wlast' = WCall(op, n, res)
    /\ accepted' = accepted + res.n

DoWriteByte == WStep("WriteByte", 1, WriteByte(WSelf, Payload(1)[1]))

DoWriteBytes ==
    \E L \in 0..MaxLen : WStep("WriteBytes", L, WriteBytes(WSelf, Payload(L)))

\* Write of a non-empty p on an unset sink dereferences a nil interface and
\* aborts the program
DoWrite ==
    \E L \in 0..MaxLen :
        /\ dest.kind # "nil" \/ L = 0
        /\ WStep("Write", L, Write(WSelf, Payload(L)))

\* a typed write of the value `v`, with result `res`
WTyped(op, v, res) ==
    /\ Len(dest.data) < MaxSink
    /\ WInstall(res.w)
    /\ wlast' = [WCall(op, Len(v), res) EXCEPT !.val = v]
    /\ accepted' = accepted + res.n

DoWriteUint16 == WTyped("WriteUint16", Value(2), WriteUint16(WSelf, Value(2)))

DoWriteUint32 == WTyped("WriteUint32", Value(4), WriteUint32(WSelf, Value(4)))

DoWriteUint64 == WTyped("WriteUint64", Value(8), WriteUint64(WSelf, Value(8)))

DoWriteFloat32 == WTyped("WriteFloat32", Value(4), WriteFloat32(WSelf, Value(4)))

DoWriteFloat64 == WTyped("WriteFloat64", Value(8), WriteFloat64(WSelf, Value(8)))

DoZeroFill ==
    \E n \in (0 - 1)..MaxLen : WStep("ZeroFill", n, ZeroFill(WSelf, n))

DoWriterReset ==
    \E d \in Sinks \cup {NilSink}, o \in ByteOrders \cup {Nil} :
        /\ WInstall(WriterReset(WSelf, d, o))
        /\ wlast' = [WCall("Reset", 0, WResult(WSelf, Nil, 0, 0)) EXCEPT !.bo = o]
        /\ accepted' = 0

DoWriterSetByteOrder ==
    \E o \in ByteOrders \cup {Nil} :
        /\ WInstall(SetByteOrder(WSelf, o))
        /\ wlast' = [WCall("SetByteOrder", 0, WResult(WSelf, Nil, 0, 0)) EXCEPT !.bo = o]
        /\ UNCHANGED accepted

NextW ==
    \/ DoWriteByte
    \/ DoWriteBytes
    \/ DoWrite
    \/ DoWriteUint16
    \/ DoWriteUint32
    \/ DoWriteUint64
    \/ DoWriteFloat32
    \/ DoWriteFloat64
    \/ DoZeroFill
    \/ DoWriterReset
    \/ DoWriterSetByteOrder

SpecW == InitW /\ [][NextW]_vars

\* a run over a Reader or a run over a Writer
InitRW == Init \/ InitW

----------------------------------------------------------------------------
(* Runs with lengths around the 1024-byte chunk of Discard and ZeroFill:   *)
(* calls with short lengths near the start of the stream, then one call    *)
(* with a long length.                                                     *)

\* lengths below, at and above one chunk and two chunks
BigLens ==
    {ScratchLen - 1, ScratchLen, ScratchLen + 1, 2 * ScratchLen, 2 * ScratchLen + 1}

\* streams that end within the first chunk, around the end of the first
\* chunk, and after every length of BigLens
BigSources ==
    {Stream(1, MaxSrc)}
    \cup {Stream(1, ScratchLen + k) : k \in 0..MaxSrc}
    \cup {Stream(1, 3 * ScratchLen)}

\* sinks that accept all and sinks that run full in the second chunk
BigSinks == {Buffer} \cup {Limited(FillChunk + r) : r \in 1..MaxRoom}

\* a source that hands over a chunk in two parts, and one that hands it over whole
BigChunks == {ScratchLen - 1, ScratchLen}

InitBig ==
    \/ Start({NewReader(s, "LE") : s \in BigSources})
    \/ StartW({NewWriter(d, "LE") : d \in BigSinks})

\* the source has handed over fewer than MaxLen bytes
Early == source.off < MaxLen

BigReadByte == Early /\ DoReadByte

BigReadBytes == Early /\ DoReadBytes

BigPeek == Early /\ DoPeek

BigDiscard ==
    /\ Early
    /\ \E c \in BigChunks, n \in BigLens :
          RealRead("Discard", n, Discard(SelfChunk(c), n))

BigZeroFill ==
    \E K \in BigLens : WStep("ZeroFill", K, ZeroFill(WSelf, K))

NextBig ==
    \/ BigReadByte
    \/ BigReadBytes
    \/ BigPeek
    \/ BigDiscard
    \/ DoWriteByte
    \/ DoWriteBytes
    \/ DoZeroFill
    \/ BigZeroFill

SpecBig == InitBig /\ [][NextBig]_vars

NextRW == Next \/ NextW

SpecRW == InitRW /\ [][NextRW]_vars

\* every operation that moves a position on from where construction or Reset
\* put it: those of the Reader, Read included, but for Reset, and those of
\* the Writer
NextAll ==
    \/ DoReadByte
    \/ DoReadBytes
    \/ DoReadUint16
    \/ DoReadUint32
    \/ DoReadUint64
    \/ DoReadFloat32
    \/ DoReadFloat64
    \/ DoDiscard
    \/ DoPeek
    \/ DoRead
    \/ DoSetByteOrder
    \/ NextW

SpecAll == InitRW /\ [][NextAll]_vars

----------------------------------------------------------------------------
(* Runs that make the peek buffer grow: calls with short lengths near the  *)
(* start of the stream, and Peeks and reads with lengths around the        *)
(* 64 bytes the peek buffer starts with and grows by at least.             *)

\* lengths that fill the initial peek buffer, exceed it by one byte and
\* exceed it by more than the least growth
LongPeeks == {PeekBufInit, PeekBufInit + 1, PeekBufInit + PeekGrowMin + 2}

\* a stream that ends during the short calls and one that lasts for the
\* longest of the long ones
GrowSources ==
    {Stream(1, MaxLen), Stream(1, PeekBufInit + PeekGrowMin + MaxSrc)}

\* a source that hands over the long lengths in parts, and one that hands
\* over what is asked for
GrowChunks == {PeekBufInit - 1, PeekBufInit + PeekGrowMin + 2}

InitGrow == Start({NewReader(s, "LE") : s \in GrowSources} \cup {ZeroReader})

\* the first long call is a Peek
GrowPeek ==
    \E c \in GrowChunks, L \in LongPeeks :
        LET res == Peek(SelfChunk(c), L) IN
        /\ Early
        /\ Install(res.b)
        /\ last' = Call("Peek", L, res)
        /\ total' = IF res.err = Nil THEN total ELSE Unclean
        /\ view' = IF res.err = Nil /\ Len(res.out) > Len(view) THEN res.out ELSE view
        /\ UNCHANGED <<delivered, resets>>

GrowReadBytes ==
    \E c \in GrowChunks, L \in LongPeeks :
        /\ ~Early
        /\ RealRead("ReadBytes", L, ReadBytes(SelfChunk(c), L))

\* Reset onto a fresh long stream, before any long call
GrowReset ==
    /\ Early
    /\ resets < MaxResets
    /\ LET s == Stream(IF source.id = 1 THEN 2 ELSE 1,
                       PeekBufInit + PeekGrowMin + MaxSrc) IN
          /\ Install(Reset(Self, s, "LE"))
          /\ last' = [Call("Reset", 0, Result(Self, Nil, <<>>)) EXCEPT !.bo = "LE"]
    /\ delivered' = <<>>
    /\ total' = Unclean
    /\ view' = <<>>
    /\ resets' = resets + 1

NextGrow ==
    \/ BigReadByte
    \/ BigReadBytes
    \/ BigPeek
    \/ Early /\ DoDiscard
    \/ GrowPeek
    \/ GrowReadBytes
    \/ GrowReset

SpecGrow == InitGrow /\ [][NextGrow]_vars

----------------------------------------------------------------------------
(* Properties *)

TypedReads ==
    {"ReadUint16", "ReadUint32", "ReadUint64", "ReadFloat32", "ReadFloat64"}

Pending == nPeeked - peekPos

\* two byte sequences agree on the length of the shorter one
Agree(a, b) == \A i \in 1..Min(Len(a), Len(b)) : a[i] = b[i]

\* C1: stream fidelity.  The bytes delivered by the real reads are the
\* prefix of the source stream of length GetPosition(): none is skipped,
\* duplicated or reordered by interleaved Peeks.  While every call has
\* succeeded, the source has handed out exactly the consumed bytes plus the
\* pending peeked bytes (no double fetch, no loss), and the pending bytes
\* are the next bytes of the stream.
StreamFidelity ==
    /\ pos <= source.off /\ source.off <= source.len
    /\ peekPos <= nPeeked /\ nPeeked <= Len(peekBuffer)
    /\ delivered = SubSeq(SrcData(source), 1, pos)
    /\ total.clean =>
          /\ source.off = pos + Pending
          /\ SubSeq(peekBuffer, peekPos + 1, nPeeked)
                = SubSeq(SrcData(source), pos + 1, source.off)

\* a successful ReadBytes, after earlier reads, that took its first bytes
\* from the peek buffer and the rest from the source
FidelityWitness ==
    /\ total.clean
    /\ last.op = "ReadBytes" /\ last.err = Nil
    /\ last.pend0 > 0 /\ last.pend0 < last.n /\ last.pos0 > 0
    /\ delivered = SubSeq(SrcData(source), 1, pos)

\* C2: Peek never changes the position, whether it succeeds or fails.
PeekKeepsPosition == last.op = "Peek" => pos = last.pos0

\* a successful Peek that had to fetch from the source, after bytes were consumed
PeekPositionWitness ==
    /\ last.op = "Peek" /\ last.err = Nil
    /\ last.n > last.pend0 /\ last.pos0 > 0
    /\ pos = last.pos0

\* C3: a successful Peek of length N followed immediately by ReadBytes of
\* length N: the read succeeds, returns the peeked bytes, and the position
\* has advanced by exactly N over the pair.
PeekThenRead ==
    [][(/\ last.op = "Peek" /\ last.err = Nil
        /\ last'.op = "ReadBytes" /\ last'.n = last.n)
       => /\ last'.err = Nil
          /\ last'.out = last.out
          /\ pos' = last.pos0 + last.n]_vars

\* the state between the two calls: a successful Peek that extended earlier
\* pending bytes by bytes of the source, from which ReadBytes returns the same
PeekThenReadWitness ==
    /\ last.op = "Peek" /\ last.err = Nil
    /\ last.pend0 > 0 /\ last.n > last.pend0 /\ last.pos0 > 0
    /\ ReadBytes(Self, last.n).out = last.out
    /\ ReadBytes(Self, last.n).b.pos = last.pos0 + last.n

\* C4: after any sequence of successful ReadByte, ReadBytes, typed reads and
\* Discards, with Peeks (successful or failed) anywhere between them,
\* GetPosition() is the sum of the byte counts of the real reads (1,
\* len(dst), 2/4/8, n), whether their bytes came from the peek buffer or
\* from the source.
PositionIsSum == total.clean => GetPosition(Self) = total.sum

\* fifteen bytes read by successful real reads, the last of them a ReadByte
\* served from the peek buffer after a Peek that failed and drained the
\* source
PositionSumWitness ==
    /\ total.clean /\ total.sum = 15 /\ GetPosition(Self) = 15
    /\ last.op = "ReadByte" /\ last.err = Nil
    /\ last.pos0 = 14 /\ last.pend0 = 1 /\ last.rem0 = 0
    /\ source.len = 16 /\ source.off = 16

\* an 8-byte read, after earlier reads, whose bytes came partly from the
\* peek buffer and partly from the source
PositionSumWide ==
    /\ total.clean /\ GetPosition(Self) = total.sum
    /\ last.op \in {"ReadUint64", "ReadFloat64"} /\ last.err = Nil
    /\ last.pend0 > 0 /\ last.pend0 < 8 /\ last.pos0 >= 4

\* the reads of TestGetPosition, a Peek before the last of them:
\* 4 + 1 + 2 + 4 + 3 = 14
PositionSumTest ==
    /\ total.clean /\ total.sum = 14 /\ GetPosition(Self) = 14
    /\ last.op = "ReadBytes" /\ last.n = 3 /\ last.err = Nil
    /\ last.pos0 = 11 /\ last.pend0 = 2
    /\ delivered = SubSeq(SrcData(source), 1, 14)

\* C5: a successful Peek agrees, on the length of the shorter, with the
\* longest successful Peek made since the last real read or Reset; so any
\* two Peeks with no real read or Reset between them agree on their first
\* min(A, B) bytes.
PeeksAgree ==
    [][(last'.op = "Peek" /\ last'.err = Nil) => Agree(last'.out, view)]_vars

\* a successful Peek shorter than an earlier one, after bytes were consumed
PeeksAgreeWitness ==
    /\ last.op = "Peek" /\ last.err = Nil /\ last.pos0 > 0
    /\ Len(last.out) > 0 /\ Len(last.out) < Len(view)
    /\ last.out = SubSeq(view, 1, Len(last.out))

\* C6: on a new Reader over a source holding at least L bytes, ReadBytes of
\* length A followed by ReadBytes of length L - A delivers the same bytes and
\* leaves the same position as one ReadBytes of length L.
SplitRead ==
    [][(/\ last.op = "ReadBytes" /\ last.first
        /\ last'.op = "ReadBytes"
        /\ source.kind = "bytes"
        /\ last.n + last'.n <= source.len)
       => \A c \in Chunks :
             LET fresh == NewReader([source EXCEPT !.off = 0, !.chunk = c], bo)
                 one == ReadBytes(fresh, last.n + last'.n)
             IN /\ last.err = Nil /\ last'.err = Nil /\ one.err = Nil
                /\ last.out \o last'.out = one.out
                /\ pos' = one.b.pos]_vars

\* the state between the two calls: a first ReadBytes on a new Reader that
\* left at least two bytes in the source
SplitReadWitness ==
    /\ last.op = "ReadBytes" /\ last.first /\ last.err = Nil
    /\ last.n > 1 /\ source.len - source.off > 1

\* C7: with pending peeked bytes, every operation that hands bytes to the
\* caller as consumed (ReadByte, ReadBytes, the typed reads, Discard and
\* Read) delivers the pending peeked bytes before any byte newly read from
\* the source.
PendingDeliveredFirst ==
    [][(/\ last'.op \in RealReads \cup {"Read"}
        /\ Pending > 0
        /\ Len(last'.out) > 0)
       => LET k == Min(Pending, Len(last'.out))
          IN SubSeq(last'.out, 1, k) = SubSeq(peekBuffer, peekPos + 1, peekPos + k)]_vars

\* C8: Reset sets the position to 0 and the byte order to the one passed and
\* drops the peek state; a Peek or a real read made immediately after it
\* returns bytes of the new source only, from its start.
ResetClears ==
    [][/\ last'.op = "Reset"
          => /\ pos' = 0 /\ bo' = last'.bo
             /\ peekPos' = 0 /\ nPeeked' = 0
             /\ source'.off = 0
       /\ (last.op = "Reset" /\ last'.op \in RealReads \cup {"Peek"})
          => /\ Len(last'.out) <= source.len
             /\ last'.out = SubSeq(SrcData(source), 1, Len(last'.out))]_vars

\* a Reset made with bytes consumed and peeked bytes of the old source pending
ResetWitness ==
    /\ last.op = "Reset" /\ last.pend0 > 0 /\ last.pos0 > 0
    /\ source.len > 0 /\ pos = 0 /\ nPeeked = 0 /\ peekPos = 0
    /\ Peek(Self, 1).out = <<ByteAt(source.id, 1)>>

\* C9: a Peek that fails because the source runs out leaves peekPos, nPeeked
\* and the pending bytes of the peek buffer as they were, so a Peek or a
\* ReadBytes of at most the pending length returns the same bytes as before.
FailedPeekKeepsState ==
    [][(last'.op = "Peek" /\ last'.err \in {EOF, ErrUnexpectedEOF})
       => /\ peekPos' = peekPos
          /\ nPeeked' = nPeeked
          /\ SubSeq(peekBuffer', peekPos + 1, nPeeked)
                = SubSeq(peekBuffer, peekPos + 1, nPeeked)
          /\ \A k \in 1..Pending :
                /\ Peek(SelfNext, k).err = Nil
                /\ Peek(SelfNext, k).out = Peek(Self, k).out
                /\ ReadBytes(SelfNext, k).err = Nil
                /\ ReadBytes(SelfNext, k).out = ReadBytes(Self, k).out]_vars

\* a Peek that failed after the source handed over some bytes, with peeked
\* bytes pending
FailedPeekWitness ==
    /\ last.op = "Peek" /\ last.err = ErrUnexpectedEOF
    /\ last.pend0 > 0 /\ Pending = last.pend0
    /\ source.off = source.len

\* C10: ReadBytes and Peek of a positive length on a bound Reader whose
\* source is exhausted and which has no pending peeked bytes fail with
\* io.ErrUnexpectedEOF.
ExhaustedIsUnexpectedEOF ==
    (/\ last.op \in {"ReadBytes", "Peek"}
     /\ last.n > 0
     /\ source.kind = "bytes"
     /\ last.rem0 = 0 /\ last.pend0 = 0)
    => last.err = ErrUnexpectedEOF

\* the fields of the Reader
reader == <<source, pos, bo, peekBuffer, nPeeked, peekPos>>

\* C11: ReadBytes and Peek with a destination of length zero always succeed
\* and change no state, whatever the source: exhausted or unset.
EmptyAlwaysSucceeds ==
    [][(last'.op \in {"ReadBytes", "Peek"} /\ last'.n = 0)
       => (last'.err = Nil /\ UNCHANGED reader)]_vars

\* C11 as the code has it: ReadBytes and Peek with a destination of length
\* zero change no state; they succeed on every bound Reader, also when the
\* source is exhausted, and return the nil-reader error when the source is
\* unset.
EmptyOnBoundSucceeds ==
    [][(last'.op \in {"ReadBytes", "Peek"} /\ last'.n = 0)
       => /\ UNCHANGED reader
          /\ last'.out = <<>>
          /\ last'.err = IF source.kind = "nil" THEN ErrNilReader ELSE Nil]_vars

\* a ReadBytes of length zero that succeeded on an exhausted source, after
\* bytes were consumed
EmptyReadWitness ==
    /\ last.op = "ReadBytes" /\ last.n = 0 /\ last.err = Nil
    /\ last.rem0 = 0 /\ last.pend0 = 0 /\ last.pos0 > 0
    /\ pos = last.pos0 /\ source.off = source.len

\* the Reader of the current state with every way the source may split a read
Selves == {SelfChunk(c) : c \in Chunks}

\* the call failed with `err` and left the Reader `b` as it was
FailsUntouched(res, b, err) == res.err = err /\ res.b = b /\ res.out = <<>>

\* the call failed with `err`, made no call of the sink and left the Writer as it was
WFailsUntouched(res, err) ==
    res.err = err /\ res.w = WSelf /\ res.n = 0 /\ res.calls = 0

\* C12: on a Reader whose source is unset ReadByte, ReadBytes and Peek of a
\* positive length, the typed reads and Discard return the nil-reader error
\* and leave the position, the byte order and the peek state unchanged; on a
\* Writer whose sink is unset WriteByte, WriteBytes, the typed writes and
\* ZeroFill return the nil-writer error and leave the position unchanged.
UnsetFails ==
    /\ source.kind = "nil" =>
          \A b \in Selves :
             /\ FailsUntouched(ReadByte(b), b, ErrNilReader)
             /\ \A L \in 1..MaxLen :
                   /\ FailsUntouched(ReadBytes(b, L), b, ErrNilReader)
                   /\ FailsUntouched(Peek(b, L), b, ErrNilReader)
             /\ \A n \in 0..MaxLen : FailsUntouched(Discard(b, n), b, ErrNilReader)
             /\ FailsUntouched(ReadUint16(b), b, ErrNilReader)
             /\ FailsUntouched(ReadUint32(b), b, ErrNilReader)
             /\ FailsUntouched(ReadUint64(b), b, ErrNilReader)
             /\ FailsUntouched(ReadFloat32(b), b, ErrNilReader)
             /\ FailsUntouched(ReadFloat64(b), b, ErrNilReader)
    /\ dest.kind = "nil" =>
          /\ WFailsUntouched(WriteByte(WSelf, Payload(1)[1]), ErrNilWriter)
          /\ \A L \in 0..MaxLen :
                WFailsUntouched(WriteBytes(WSelf, Payload(L)), ErrNilWriter)
          /\ \A n \in (0 - 1)..MaxLen :
                WFailsUntouched(ZeroFill(WSelf, n), ErrNilWriter)
          /\ WFailsUntouched(WriteUint16(WSelf, Value(2)), ErrNilWriter)
          /\ WFailsUntouched(WriteUint32(WSelf, Value(4)), ErrNilWriter)
          /\ WFailsUntouched(WriteUint64(WSelf, Value(8)), ErrNilWriter)
          /\ WFailsUntouched(WriteFloat32(WSelf, Value(4)), ErrNilWriter)
          /\ WFailsUntouched(WriteFloat64(WSelf, Value(8)), ErrNilWriter)

\* a Writer whose sink a Reset has unset after bytes were written, with a
\* byte order set, on which ZeroFill and WriteUint16 fail
UnsetFailsWitness ==
    /\ wlast.op = "Reset" /\ wlast.pos0 > 0
    /\ dest.kind = "nil" /\ wbo # Nil
    /\ ZeroFill(WSelf, 1).err = ErrNilWriter
    /\ WriteUint16(WSelf, Value(2)).err = ErrNilWriter

\* C13: with the byte order unset every typed read and every typed write
\* returns an error before it touches the source or the sink: no byte is
\* taken from the source or the peek buffer, no byte is written, and the
\* position stays (the error is the unset byte order's when a source or a
\* sink is bound, the unset source's or sink's when not).
ByteOrderUnsetFails ==
    /\ bo = Nil =>
          \A b \in Selves :
             LET err == IF source.kind = "nil" THEN ErrNilReader ELSE ErrByteOrder
             IN /\ FailsUntouched(ReadUint16(b), b, err)
                /\ FailsUntouched(ReadUint32(b), b, err)
                /\ FailsUntouched(ReadUint64(b), b, err)
                /\ FailsUntouched(ReadFloat32(b), b, err)
                /\ FailsUntouched(ReadFloat64(b), b, err)
    /\ wbo = Nil =>
          LET err == IF dest.kind = "nil" THEN ErrNilWriter ELSE ErrByteOrder
          IN /\ WFailsUntouched(WriteUint16(WSelf, Value(2)), err)
             /\ WFailsUntouched(WriteUint32(WSelf, Value(4)), err)
             /\ WFailsUntouched(WriteUint64(WSelf, Value(8)), err)
             /\ WFailsUntouched(WriteFloat32(WSelf, Value(4)), err)
             /\ WFailsUntouched(WriteFloat64(WSelf, Value(8)), err)

\* a typed read that failed for the unset byte order on a bound Reader with
\* bytes consumed, peeked bytes pending and bytes left in the source
ByteOrderUnsetWitness ==
    /\ bo = Nil /\ source.kind = "bytes"
    /\ last.op \in TypedReads /\ last.err = ErrByteOrder
    /\ pos = last.pos0 /\ pos > 0
    /\ Pending = last.pend0 /\ Pending > 0
    /\ source.len - source.off = last.rem0 /\ last.rem0 > 0

\* the operations that write through WriteBytes
WriteOps ==
    {"WriteByte", "WriteBytes", "WriteUint16", "WriteUint32", "WriteUint64",
     "WriteFloat32", "WriteFloat64", "ZeroFill"}

\* C14: WriteBytes and every operation built on it returns success only when
\* the sink has accepted the whole buffer: after a short count without an
\* error the rest is offered again, until all of it is accepted or the sink
\* reports an error.
WritesWhole ==
    (wlast.op \in WriteOps /\ wlast.err = Nil) => wlast.cnt = wlast.n

\* C15: on a bound source that hands its bytes over in partial chunks
\* ReadBytes reads until the destination is full: it returns success if and
\* only if exactly len(dst) bytes were delivered, never after a short read,
\* and then the position has advanced by len(dst).
ReadBytesFills ==
    (last.op = "ReadBytes" /\ source.kind = "bytes")
    => /\ (last.err = Nil) <=> (Len(last.out) = last.n)
       /\ Len(last.out) <= last.n
       /\ last.err = Nil => pos = last.pos0 + last.n

\* a successful ReadBytes, straight from the source, which a single Read of
\* a source handing over one byte per call would have left short
ReadBytesFillsWitness ==
    /\ last.op = "ReadBytes" /\ last.err = Nil
    /\ last.n > 1 /\ last.pend0 = 0 /\ Len(last.out) = last.n
    /\ LET before == [Self EXCEPT !.source.off = @ - last.n, !.pos = @ - last.n]
       IN /\ SrcRead(before.source, last.n).n < last.n
          /\ ReadBytes(before, last.n).b = Self
          /\ ReadBytes(before, last.n).out = last.out

\* C17: the position of the Writer is the sum of the counts the sink has
\* returned since NewWriter or the last Reset: every write advances it by
\* exactly the count the sink returned, also when the sink returned the count
\* together with an error; the sink holds as many bytes more.
WPositionIsAccepted ==
    /\ wpos = accepted
    /\ wlast.op \in WriteOps \cup {"Write"}
       => /\ wpos = wlast.pos0 + wlast.cnt
          /\ Len(dest.data) = wlast.len0 + wlast.cnt

\* a WriteBytes, after earlier writes, of which the sink accepted a part and
\* reported an error
WPositionWitness ==
    /\ wlast.op = "WriteBytes" /\ wlast.err = ErrSink
    /\ wlast.cnt > 0 /\ wlast.cnt < wlast.n /\ wlast.pos0 > 0
    /\ wpos = wlast.pos0 + wlast.cnt /\ wpos = accepted

\* the negative lengths handed to ZeroFill
NegLens == {0 - k : k \in 1..MaxLen} \cup {0 - FillChunk, 0 - FillChunk - 1}

\* C19: ZeroFill of a negative length returns an error before any write is
\* attempted and leaves the position unchanged; ZeroFill(0) on a bound
\* Writer returns success without a call of the sink and without a change
\* of the position.
ZeroFillEdge ==
    /\ \A n \in NegLens :
          WFailsUntouched(ZeroFill(WSelf, n),
                          IF dest.kind = "nil" THEN ErrNilWriter ELSE ErrNegative)
    /\ dest.kind # "nil"
       => ZeroFill(WSelf, 0) = WTraced(WResult(WSelf, Nil, 0, 0), <<>>)
    /\ (wlast.op = "ZeroFill" /\ wlast.n <= 0)
       => /\ wlast.calls = 0 /\ wlast.cnt = 0
          /\ wpos = wlast.pos0 /\ Len(dest.data) = wlast.len0
          /\ (wlast.n < 0) => (wlast.err # Nil)

\* a ZeroFill of a negative length that failed on a bound Writer holding
\* written bytes, on which ZeroFill(0) succeeds
ZeroFillEdgeWitness ==
    /\ wlast.op = "ZeroFill" /\ wlast.n < 0 /\ wlast.err = ErrNegative
    /\ dest.kind # "nil" /\ wpos > 0 /\ wpos = wlast.pos0
    /\ Len(dest.data) = wlast.len0 /\ wlast.len0 > 0
    /\ ZeroFill(WSelf, 0).err = Nil

\* C16: no rollback of partial progress.  A ReadBytes or a Discard that
\* fails because the source ran out has advanced the position by the bytes
\* it obtained (the pending peeked bytes and all that was left in the
\* source, the bytes of earlier chunks included) and has obtained fewer than
\* asked for; a ZeroFill that fails has advanced the position by the bytes
\* the sink accepted, the earlier chunks included, and has stopped at the
\* chunk that failed.
NoRollback ==
    /\ (last.op \in {"ReadBytes", "Discard"} /\ last.err \in {EOF, ErrUnexpectedEOF})
       => /\ pos = last.pos0 + Len(last.out)
          /\ Len(last.out) = last.pend0 + last.rem0
          /\ Len(last.out) < last.n
          /\ source.off = source.len /\ Pending = 0
    /\ (wlast.op = "ZeroFill" /\ wlast.err = ErrSink)
       => /\ wpos = wlast.pos0 + wlast.cnt
          /\ Len(dest.data) = wlast.len0 + wlast.cnt
          /\ wlast.cnt < wlast.n
          /\ wlast.calls = (wlast.cnt \div FillChunk) + 1

\* a Discard of more than two chunks, after bytes were consumed and with
\* peeked bytes pending, that failed in its second chunk
NoRollbackWitness ==
    /\ last.op = "Discard" /\ last.n > 2 * ScratchLen
    /\ last.err = ErrUnexpectedEOF
    /\ Len(last.out) > ScratchLen
    /\ last.pos0 > 0 /\ last.pend0 > 0
    /\ pos = last.pos0 + Len(last.out)

\* C18: on a sink that accepts all bytes ZeroFill(K), after any writes,
\* succeeds, appends exactly K bytes of value zero to what the sink holds and
\* advances the position by K, for K below, at and above the 1024-byte chunk
\* and for multiples of it.
ZeroFillExact ==
    [][(wlast'.op = "ZeroFill" /\ dest.kind = "buffer" /\ wlast'.n >= 0)
       => /\ wlast'.err = Nil
          /\ wpos' = wpos + wlast'.n
          /\ dest'.data = dest.data \o Zeros(wlast'.n)]_vars

\* a ZeroFill of exactly two chunks on a sink that holds written bytes
ZeroFillExactWitness ==
    /\ wlast.op = "ZeroFill" /\ wlast.n = 2 * FillChunk /\ wlast.err = Nil
    /\ dest.kind = "buffer" /\ wlast.len0 > 0 /\ dest.data[1] # 0
    /\ Len(dest.data) = wlast.len0 + wlast.n
    /\ wpos = wlast.pos0 + wlast.n

\* Discard(n) and ReadBytes of length n agree in this state on a source that
\* hands over at most c bytes per call
DiscardAgrees(c, n) ==
    LET d == Discard(SelfChunk(c), n)
        r == ReadBytes(SelfChunk(c), n)
    IN /\ (d.err = Nil) <=> (r.err = Nil)
       /\ d.b = r.b
       /\ d.out = r.out
       /\ d.err = Nil => (d.b.pos = pos + n /\ Len(d.out) = n)

\* C20: in every state Discard(n) does what ReadBytes into a buffer of n
\* bytes does: the same success or failure, the same bytes consumed, the same
\* position, peek state and source offset afterwards; when it succeeds
\* exactly n bytes are consumed, for n below, at and above the 1024-byte
\* chunk.
DiscardIsReadBytes ==
    /\ \A c \in Chunks \cup BigChunks, n \in 0..MaxLen : DiscardAgrees(c, n)
    /\ \A c \in BigChunks, n \in BigLens : DiscardAgrees(c, n)

\* a successful Discard of more than two chunks, after bytes were consumed
\* and with peeked bytes pending
DiscardIsReadBytesWitness ==
    /\ last.op = "Discard" /\ last.n = 2 * ScratchLen + 1 /\ last.err = Nil
    /\ last.pend0 > 0 /\ last.pos0 > 0
    /\ pos = last.pos0 + last.n
    /\ Pending = 0

(* Write, then read back: a Writer over a bytes.Buffer takes typed values, *)
(* a Reader is then built over the bytes the last write put into the       *)
(* buffer, in the Writer's byte order, and the typed reads run on it.      *)

\* the value 1234 = 0x000004D2 of the tests
Sample == 1234

\* v shifted right by k bytes
RECURSIVE Shr(_, _)
Shr(v, k) == IF k = 0 THEN v ELSE Shr(v \div 256, k - 1)

\* the w-byte unsigned integer v as base-256 digits, most significant first
Digits(v, w) == [i \in 1..w |-> Shr(v, w - i) % 256]

\* math.Float32bits and math.Float64bits of the 1234.5678 of the tests
Float32bits == <<68, 154, 82, 43>>

Float64bits == <<64, 147, 74, 69, 109, 92, 250, 173>>

\* the values handed to a typed write of w bytes
Vals(w) ==
    {Zeros(w), [i \in 1..w |-> 255], Value(w), Digits(Sample, w)}
    \cup (IF w = 4 THEN {Float32bits} ELSE IF w = 8 THEN {Float64bits} ELSE {})

TypedWrites ==
    {"WriteUint16", "WriteUint32", "WriteUint64", "WriteFloat32", "WriteFloat64"}

\* the read that matches a typed write
ReadOf(op) ==
    CASE op = "WriteUint16" -> "ReadUint16"
      [] op = "WriteUint32" -> "ReadUint32"
      [] op = "WriteUint64" -> "ReadUint64"
      [] op = "WriteFloat32" -> "ReadFloat32"
      [] op = "WriteFloat64" -> "ReadFloat64"
      [] OTHER -> "none"

InitTrip == StartW({NewWriter(Buffer, o) : o \in ByteOrders})

TripWriteUint16 ==
    \E v \in Vals(2) : WTyped("WriteUint16", v, WriteUint16(WSelf, v))

TripWriteUint32 ==
    \E v \in Vals(4) : WTyped("WriteUint32", v, WriteUint32(WSelf, v))

TripWriteUint64 ==
    \E v \in Vals(8) : WTyped("WriteUint64", v, WriteUint64(WSelf, v))

TripWriteFloat32 ==
    \E v \in Vals(4) : WTyped("WriteFloat32", v, WriteFloat32(WSelf, v))

TripWriteFloat64 ==
    \E v \in Vals(8) : WTyped("WriteFloat64", v, WriteFloat64(WSelf, v))

\* the bytes the last write appended to the buffer
Written == SubSeq(dest.data, wlast.len0 + 1, Len(dest.data))

\* NewReaderBytes over the bytes of the last write, in the Writer's order
TripOpen ==
    /\ last.op = "none"
    /\ wlast.op \in TypedWrites /\ wlast.err = Nil
    /\ LET b == NewReaderBytes(Written, wbo) IN
          /\ source' = b.source
          /\ pos' = b.pos
          /\ bo' = b.bo
          /\ peekBuffer' = b.peekBuffer
          /\ nPeeked' = b.nPeeked
          /\ peekPos' = b.peekPos
    /\ last' = [NoCall EXCEPT !.op = "NewReader"]
    /\ delivered' = <<>>
    /\ total' = [clean |-> TRUE, sum |-> 0]
    /\ view' = <<>>
    /\ resets' = 0
    /\ UNCHANGED wvars

NextTrip ==
    \/ TripWriteUint16
    \/ TripWriteUint32
    \/ TripWriteUint64
    \/ TripWriteFloat32
    \/ TripWriteFloat64
    \/ TripOpen
    \/ DoReadUint16
    \/ DoReadUint32
    \/ DoReadUint64
    \/ DoReadFloat32
    \/ DoReadFloat64

SpecTrip == InitTrip /\ [][NextTrip]_vars

\* C21: a typed write of the value v under a byte order, followed by the
\* matching typed read under the same byte order on the bytes the write
\* produced, succeeds and returns exactly v; the Writer's position and the
\* Reader's position have each advanced by the width of the value.
RoundTrip ==
    [][(/\ last.op = "NewReader"
        /\ wlast.op \in TypedWrites
        /\ last'.op = ReadOf(wlast.op))
       => /\ last'.err = Nil
          /\ last'.val = wlast.val
          /\ bo' = wbo
          /\ pos' = pos + wlast.n
          /\ wpos = wlast.pos0 + wlast.n]_vars

RoundTripWitness ==
    /\ wlast.op = "WriteFloat64" /\ wlast.val = Value(8) /\ wlast.pos0 = 2
    /\ last.op = "ReadFloat64" /\ last.first
    /\ bo = "LE" /\ wbo = "LE"
    /\ last.val = Value(8)
    /\ last.out = Reverse(Value(8))
    /\ pos = 8 /\ wpos = 10

\* the byte order that is not o
Other(o) == IF o = "LE" THEN "BE" ELSE "LE"

\* C22: a typed write lays the value out least significant byte first under
\* the little-endian order and most significant byte first under the
\* big-endian order; the big-endian encoding of a value is the byte-reverse
\* of its little-endian encoding; WriteUint32(0x000004D2) emits D2 04 00 00
\* under little-endian and 00 00 04 D2 under big-endian.
ByteLayout ==
    (wlast.op \in TypedWrites /\ wlast.err = Nil)
    => LET w == wlast.n
           v == wlast.val
       IN /\ Len(Written) = w
          /\ wbo = "LE" => \A i \in 1..w : Written[i] = v[w + 1 - i]
          /\ wbo = "BE" => \A i \in 1..w : Written[i] = v[i]
          /\ WriteTyped(NewWriter(Buffer, Other(wbo)), v).w.dest.data
                = Reverse(Written)
          /\ (wlast.op = "WriteUint32" /\ v = Digits(Sample, 4))
             => Written = IF wbo = "LE" THEN <<210, 4, 0, 0>>
                                        ELSE <<0, 0, 4, 210>>

ByteLayoutWitness ==
    /\ wlast.op = "WriteUint32" /\ wlast.err = Nil
    /\ wlast.val = Digits(Sample, 4)
    /\ wbo = "LE"
    /\ dest.data = <<210, 4, 0, 0>>
    /\ wpos = 4

\* C23: SetByteOrder(bo) changes the byte order and nothing else: position,
\* peekPos, nPeeked, the peek buffer and the source stay as they were, and
\* GetByteOrder() returns bo afterwards; a typed read decodes its bytes with
\* the byte order in force when it is called, also when these bytes were
\* fetched by a Peek made before the byte order was changed.
SetByteOrderOnly ==
    [][/\ last'.op = "SetByteOrder"
          => /\ GetByteOrder(SelfNext) = last'.bo
             /\ UNCHANGED <<source, pos, peekBuffer, nPeeked, peekPos>>
       /\ (last'.op \in TypedReads /\ last'.err = Nil)
          => /\ bo = "LE" => last'.val = Reverse(last'.out)
             /\ bo = "BE" => last'.val = last'.out
             /\ last.op = "SetByteOrder" => bo = last.bo
             /\ Pending >= last'.n
                => last'.out = SubSeq(peekBuffer, peekPos + 1, peekPos + last'.n)
      ]_vars

\* the byte order was set after a Peek of two different bytes, which the
\* next ReadUint16 decodes in the new order
SetByteOrderWitness ==
    /\ last.op = "SetByteOrder" /\ last.bo = "BE"
    /\ Len(view) >= 2 /\ Pending >= 2
    /\ GetByteOrder(Self) = "BE"
    /\ peekBuffer[peekPos + 1] # peekBuffer[peekPos + 2]
    /\ ReadUint16(Self).val = SubSeq(peekBuffer, peekPos + 1, peekPos + 2)
    /\ ReadUint16(SetByteOrder(Self, "LE")).val
          = <<peekBuffer[peekPos + 2], peekBuffer[peekPos + 1]>>

\* the Writer of the next state
WSelfNext == [dest |-> dest', pos |-> wpos', bo |-> wbo']

\* C24: Writer.Reset(newSink, bo) sets the position to 0 and the byte order
\* to bo and binds the Writer to newSink, which holds nothing of what the
\* old sink had taken; every write afterwards appends the bytes it got
\* accepted to the sink the Writer is bound to and to no other, and the
\* position is the number of bytes this sink has accepted since the Reset.
WriterResetRebinds ==
    [][/\ wlast'.op = "Reset"
          => /\ GetPosition(WSelfNext) = 0
             /\ GetByteOrder(WSelfNext) = wlast'.bo
             /\ dest' \in Sinks \cup {NilSink}
             /\ dest'.data = <<>>
       /\ wlast'.op \in WriteOps \cup {"Write"}
          => /\ dest'.kind = dest.kind
             /\ Len(dest'.data) = Len(dest.data) + wlast'.cnt
             /\ SubSeq(dest'.data, 1, Len(dest.data)) = dest.data
             /\ wpos' = wpos + wlast'.cnt
       /\ wpos' = Len(dest'.data)
      ]_vars

\* a Writer that had written to a sink is reset onto an empty buffer, and
\* its next write lands there at position 0
WriterResetWitness ==
    /\ wlast.op = "Reset" /\ wlast.pos0 > 0 /\ wlast.len0 > 0
    /\ wlast.bo = "BE" /\ wbo = "BE"
    /\ wpos = 0 /\ dest = Buffer
    /\ LET r == WriteBytes(WSelf, Payload(2)) IN
          /\ r.err = Nil
          /\ r.w.pos = 2
          /\ r.w.dest.data = Payload(2)

\* C25: the position never goes down.  No operation of the Reader or of the
\* Writer other than Reset lowers GetPosition(), whether it succeeds or
\* fails, given that sources and sinks report counts between 0 and the
\* length they were handed; Reader.Read, in whatever state it is called,
\* does not lower it either.
PositionMonotone ==
    [][/\ last'.op # "Reset" => GetPosition(SelfNext) >= GetPosition(Self)
       /\ wlast'.op # "Reset" => GetPosition(WSelfNext) >= GetPosition(WSelf)
      ]_vars

\* a read that merges pending peeked bytes with source bytes fails after
\* earlier reads had moved the position
PositionMonotoneWitness ==
    /\ last.op = "ReadBytes" /\ last.err # Nil
    /\ last.pend0 > 0 /\ last.pend0 < last.n
    /\ last.pos0 > 0
    /\ pos >= last.pos0

\* C26: ReadBytes of length L with 0 < pending < L puts the pending peeked
\* bytes at the front of the destination and takes the other L - pending
\* bytes from the source, exactly that many on success; on success the
\* position has advanced by L and peekPos equals nPeeked.
MergeRead ==
    [][(last'.op = "ReadBytes" /\ 0 < Pending /\ Pending < last'.n)
       => /\ Len(last'.out) >= Pending
          /\ SubSeq(last'.out, 1, Pending)
                = SubSeq(peekBuffer, peekPos + 1, nPeeked)
          /\ last'.err = Nil
             => /\ Len(last'.out) = last'.n
                /\ source'.off = source.off + (last'.n - Pending)
                /\ SubSeq(last'.out, Pending + 1, last'.n)
                      = SubSeq(SrcData(source), source.off + 1, source'.off)
                /\ pos' = pos + last'.n
                /\ peekPos' = nPeeked'
                /\ nPeeked' = nPeeked
      ]_vars

\* two of three bytes peeked, one of them read, then a ReadBytes of three
MergeReadWitness ==
    /\ last.op = "ReadBytes" /\ last.err = Nil
    /\ last.n = 3 /\ last.pend0 = 1 /\ last.pos0 = 1
    /\ pos = 4 /\ source.off = 4
    /\ peekPos = nPeeked /\ nPeeked = 2
    /\ last.out = SubSeq(SrcData(source), 2, 4)

\* C27: ReadBytes of length L > 0 with pending >= L is served from the peek
\* buffer alone: it succeeds, delivers the L bytes of the peek buffer that
\* start at peekPos, advances peekPos and the position by L, leaves nPeeked
\* and the peek buffer as they were and takes nothing from the source.
ServedFromPeek ==
    [][(last'.op = "ReadBytes" /\ last'.n > 0 /\ Pending >= last'.n)
       => /\ last'.err = Nil
          /\ last'.out = SubSeq(peekBuffer, peekPos + 1, peekPos + last'.n)
          /\ peekPos' = peekPos + last'.n
          /\ pos' = pos + last'.n
          /\ nPeeked' = nPeeked
          /\ peekBuffer' = peekBuffer
          /\ source' = source
      ]_vars

\* three bytes peeked, then a ReadBytes of two: one byte stays pending
ServedFromPeekWitness ==
    /\ last.op = "ReadBytes" /\ last.err = Nil
    /\ last.n = 2 /\ last.pend0 = 3 /\ last.pos0 = 0
    /\ pos = 2 /\ peekPos = 2 /\ nPeeked = 3 /\ source.off = 3
    /\ last.out = SubSeq(SrcData(source), 1, 2)

\* C28: Peek of length L > 0 with pending >= L only observes: it succeeds
\* and returns the L bytes of the peek buffer that start at peekPos, takes
\* nothing from the source and leaves the position, peekPos, nPeeked and
\* the peek buffer as they were.
PeekObserves ==
    [][(last'.op = "Peek" /\ last'.n > 0 /\ Pending >= last'.n)
       => /\ last'.err = Nil
          /\ last'.out = SubSeq(peekBuffer, peekPos + 1, peekPos + last'.n)
          /\ UNCHANGED <<source, pos, peekPos, nPeeked, peekBuffer, bo>>
      ]_vars

\* three bytes peeked, one read, then a Peek of the two pending bytes
PeekObservesWitness ==
    /\ last.op = "Peek" /\ last.err = Nil
    /\ last.n = 2 /\ last.pend0 = 2 /\ last.pos0 = 1
    /\ pos = 1 /\ peekPos = 1 /\ nPeeked = 3 /\ source.off = 3
    /\ last.out = SubSeq(SrcData(source), 2, 3)

\* C29: a successful Peek of length L with pending < L takes exactly
\* need = L - pending bytes from the source, stores them in the peek buffer
\* directly behind the bytes fetched before, which stay as they were, and
\* returns the pending bytes followed by the new ones; nPeeked has grown by
\* need, peekPos and the position are unchanged, and pending equals L.
PeekFetches ==
    [][(last'.op = "Peek" /\ last'.err = Nil /\ Pending < last'.n)
       => LET need == last'.n - Pending
              new == SubSeq(SrcData(source), source.off + 1, source.off + need)
          IN /\ source.off + need <= source.len
             /\ source'.off = source.off + need
             /\ Len(peekBuffer') >= nPeeked + need
             /\ SubSeq(peekBuffer', 1, nPeeked) = SubSeq(peekBuffer, 1, nPeeked)
             /\ SubSeq(peekBuffer', nPeeked + 1, nPeeked + need) = new
             /\ last'.out = SubSeq(peekBuffer, peekPos + 1, nPeeked) \o new
             /\ nPeeked' = nPeeked + need
             /\ peekPos' = peekPos
             /\ pos' = pos
             /\ nPeeked' - peekPos' = last'.n
      ]_vars

\* two bytes peeked, one read, then a Peek of three: two more are fetched
PeekFetchesWitness ==
    /\ last.op = "Peek" /\ last.err = Nil
    /\ last.n = 3 /\ last.pend0 = 1 /\ last.pos0 = 1
    /\ pos = 1 /\ peekPos = 1 /\ nPeeked = 4 /\ source.off = 4
    /\ last.out = SubSeq(SrcData(source), 2, 4)
    /\ SubSeq(peekBuffer, 1, 4) = SubSeq(SrcData(source), 1, 4)

\* C30: in every state reached from NewReader or Reader{} by Reset, Peek,
\* the reads and Discard, successful or failed, with peek buffers that had
\* to grow or not, 0 <= peekPos <= nPeeked <= len(peekBuffer).
PeekBounds ==
    /\ 0 <= peekPos
    /\ peekPos <= nPeeked
    /\ nPeeked <= Len(peekBuffer)

\* after a byte was read from the peek buffer a long Peek makes the buffer
\* grow by more than the least growth and fills it to the last byte
PeekBoundsWitness ==
    /\ last.op = "Peek" /\ last.err = Nil
    /\ 0 < peekPos /\ peekPos < nPeeked
    /\ nPeeked = Len(peekBuffer)
    /\ Len(peekBuffer) > PeekBufInit + PeekGrowMin

\* C31: whenever Peek has to fetch need bytes and the peek buffer is too
\* short for nPeeked + need bytes, the buffer is made longer before the
\* source is read, by at least the missing amount and by at least 64 bytes,
\* so that the fetched bytes have their place in it whether the fetch
\* succeeds or fails; a buffer that is long enough keeps its length, and
\* what it held is kept.  This holds from NewReader, from Reader{} and
\* after Reset.
PeekGrows ==
    [][(/\ last'.op = "Peek"
        /\ source.kind # "nil"
        /\ last'.n > 0
        /\ Pending < last'.n)
       => LET need == last'.n - Pending
              missing == (nPeeked + need) - Len(peekBuffer)
              grown == Len(peekBuffer') - Len(peekBuffer)
          IN /\ Len(peekBuffer') >= nPeeked + need
             /\ missing > 0 => (grown >= missing /\ grown >= PeekGrowMin)
             /\ missing <= 0 => grown = 0
             /\ SubSeq(peekBuffer', 1, nPeeked) = SubSeq(peekBuffer, 1, nPeeked)
      ]_vars

\* a Peek one byte too long for the buffer fails at the end of a short stream
\* and leaves the buffer longer by the least growth
PeekGrowsWitness ==
    /\ last.op = "Peek" /\ last.err # Nil
    /\ last.n + nPeeked - last.pend0 = PeekBufInit + 1
    /\ Len(peekBuffer) = PeekBufInit + PeekGrowMin

\* what a ReadBytes that merges pending bytes with too few source bytes
\* does to the position and to peekPos: the position advances by the
\* pending bytes plus the bytes the source supplied, the pending bytes
\* count as consumed
MergeFailureCounts ==
    /\ last'.err # Nil
    /\ source'.off = source.len
    /\ pos' = pos + Pending + (source.len - source.off)
    /\ peekPos' = nPeeked'
    /\ nPeeked' = nPeeked

\* C32: a ReadBytes of length L with 0 < pending < L whose source runs out
\* before it has supplied L - pending bytes returns io.ErrUnexpectedEOF,
\* also when the source supplied no byte at all; the position advances by
\* pending plus the bytes the source supplied and peekPos equals nPeeked.
MergeFailure ==
    [][(/\ last'.op = "ReadBytes"
        /\ 0 < Pending /\ Pending < last'.n
        /\ source.len - source.off < last'.n - Pending)
       => /\ last'.err = ErrUnexpectedEOF
          /\ MergeFailureCounts
      ]_vars

\* the failed merge as the code has it: io.EOF when the source supplied no
\* byte, io.ErrUnexpectedEOF when it supplied some; the counts are as above
MergeFailureAsCoded ==
    [][(/\ last'.op = "ReadBytes"
        /\ 0 < Pending /\ Pending < last'.n
        /\ source.len - source.off < last'.n - Pending)
       => /\ last'.err = IF source.off = source.len THEN EOF ELSE ErrUnexpectedEOF
          /\ MergeFailureCounts
      ]_vars

RECURSIVE SumSeq(_)
SumSeq(s) == IF s = <<>> THEN 0 ELSE Head(s) + SumSeq(Tail(s))

\* the number of chunks of at most ScratchLen bytes that n bytes take
ChunksOf(n) == (n + ScratchLen - 1) \div ScratchLen

\* the lengths `lens` of the calls of a Discard or ZeroFill of n bytes whose
\* calls all succeeded: at most one chunk each, n in all
ChunkedCalls(lens, n) ==
    /\ \A i \in 1..Len(lens) : lens[i] <= ScratchLen
    /\ SumSeq(lens) = n

\* the lengths around one and two chunks, and the short ones
FillLens == (0..MaxLen) \cup BigLens

\* C33: Discard(n) and ZeroFill(n) end for every n >= 0 and work through
\* the 1024-byte scratch buffer: when no call fails they issue
\* ceil(n / 1024) ReadBytes or WriteBytes calls, each of at most 1024 bytes,
\* whose lengths sum to n.
ChunkedExactly ==
    /\ source.kind # "nil"
       => \A c \in BigChunks, n \in FillLens :
             LET d == Discard(SelfChunk(c), n) IN
             d.err = Nil
             => /\ ChunkedCalls(d.lens, n)
                /\ Len(d.lens) = ChunksOf(n)
    /\ dest.kind # "nil"
       => \A n \in FillLens :
             LET z == ZeroFill(WSelf, n) IN
             z.err = Nil
             => /\ ChunkedCalls(z.lens, n)
                /\ Len(z.lens) = ChunksOf(n)

\* C33 as the code has it: as above for n > 0; ZeroFill(0) issues no call,
\* Discard(0) issues one ReadBytes call of length 0, which does not touch
\* the source; a call that fails is the last one.
ChunkedCallsMade ==
    /\ source.kind # "nil"
       => \A c \in BigChunks, n \in FillLens :
             LET d == Discard(SelfChunk(c), n) IN
             /\ \A i \in 1..Len(d.lens) : d.lens[i] <= ScratchLen
             /\ Len(d.lens) <= IF n = 0 THEN 1 ELSE ChunksOf(n)
             /\ d.err = Nil
                => /\ ChunkedCalls(d.lens, n)
                   /\ Len(d.lens) = IF n = 0 THEN 1 ELSE ChunksOf(n)
                   /\ Len(d.out) = n
             /\ n = 0 => (d.err = Nil /\ d.b = SelfChunk(c))
    /\ dest.kind # "nil"
       => \A n \in FillLens :
             LET z == ZeroFill(WSelf, n) IN
             /\ \A i \in 1..Len(z.lens) : z.lens[i] <= ScratchLen
             /\ Len(z.lens) <= ChunksOf(n)
             /\ z.calls = Len(z.lens)
             /\ z.err = Nil
                => /\ ChunkedCalls(z.lens, n)
                   /\ Len(z.lens) = ChunksOf(n)

\* with bytes consumed and a peeked byte pending, a Discard of two chunks
\* and one byte is made in three calls
ChunkedCallsWitness ==
    /\ source.kind = "bytes" /\ pos > 0 /\ Pending > 0
    /\ LET d == Discard(SelfChunk(ScratchLen), 2 * ScratchLen + 1) IN
          /\ d.err = Nil
          /\ d.lens = <<ScratchLen, ScratchLen, 1>>
          /\ d.b.pos = pos + 2 * ScratchLen + 1

\* C34: a failed Peek loses no source bytes.  After a Peek that failed
\* because the source held fewer bytes than it needed, the next ReadBytes or
\* Peek whose length fits the bytes that were left in the stream (the
\* pending ones and those the source handed over during the failed attempt)
\* succeeds and returns the next bytes of the stream in order.
FailedPeekLosesNothing ==
    [][(/\ last.op = "Peek" /\ last.err # Nil /\ source.kind # "nil"
        /\ last.rem0 > 0
        /\ last'.op \in {"ReadBytes", "Peek"}
        /\ last'.n > 0 /\ last'.n <= last.pend0 + last.rem0)
       => /\ last'.err = Nil
          /\ last'.out = SubSeq(SrcData(source), pos + 1, pos + last'.n)]_vars

\* what the code does: the failed Peek has drained the source and counted
\* none of the bytes it got as peeked, so only the bytes that were pending
\* before it can still be read
FailedPeekAsCoded ==
    [][(/\ last.op = "Peek" /\ last.err # Nil /\ source.kind # "nil"
        /\ last'.op \in {"ReadBytes", "Peek"} /\ last'.n > 0)
       => /\ source.off = source.len
          /\ Pending = last.pend0
          /\ last'.err = Nil <=> last'.n <= last.pend0]_vars

(***************************************************************************)
(* Rounds of Peek and read on one long stream, as BenchmarkPeekThenRead    *)
(* makes them: a Peek is made only when no peeked byte is pending, and the *)
(* real reads that follow it consume the pending bytes.                    *)
(***************************************************************************)
\* the length of the Peek of a round
RoundLen == 4

\* a stream that lasts for more rounds than the peek buffer first holds
RoundSrc == PeekBufInit + 2 * RoundLen

InitRounds == Start({NewReader(Stream(1, RoundSrc), o) : o \in ByteOrders})

RoundPeek ==
    /\ nPeeked = peekPos
    /\ \E L \in 1..RoundLen :
          LET res == Peek(Self, L) IN
          /\ Install(res.b)
          /\ last' = Call("Peek", L, res)
          /\ total' = IF res.err = Nil THEN total ELSE Unclean
          /\ view' = IF res.err = Nil THEN res.out ELSE view
          /\ UNCHANGED <<delivered, resets>>

RoundReadBytes ==
    /\ nPeeked > peekPos
    /\ \E L \in 1..(nPeeked - peekPos) :
          RealRead("ReadBytes", L, ReadBytes(Self, L))

RoundReadByte ==
    /\ nPeeked > peekPos
    /\ RealRead("ReadByte", 1, ReadByte(Self))

NextRounds == RoundPeek \/ RoundReadBytes \/ RoundReadByte

SpecRounds == InitRounds /\ [][NextRounds]_vars

\* C35: the peek buffer does not grow with the amount of data streamed.
\* When every Peek, of length at most K = RoundLen, is followed by real reads
\* that consume all pending bytes before the next Peek, len(peekBuffer)
\* stays at most 64 + K after any number of rounds.
PeekBufferBounded == Len(peekBuffer) <= PeekBufInit + RoundLen

\* what the code does: no round gives back the space of consumed peeked
\* bytes, so while no call has failed the peek buffer holds every byte the
\* source has handed over
PeekBufferAsCoded ==
    /\ peekPos = pos /\ nPeeked <= Len(peekBuffer)
    /\ total.clean => nPeeked = source.off
    /\ \A i \in 1..nPeeked : peekBuffer[i] = SrcByte(source, i)

(***************************************************************************)
(* Runs of ReadByte and the typed reads after Peeks as wide as the widest  *)
(* typed value, with changes of the byte order in between.                 *)
(***************************************************************************)
\* the widths of ReadByte and of the typed reads
Widths == {1, 2, 4, 8}

TypedPeek ==
    \E L \in Widths :
        LET res == Peek(Self, L) IN
        /\ Install(res.b)
        /\ last' = Call("Peek", L, res)
        /\ total' = IF res.err = Nil THEN total ELSE Unclean
        /\ view' = IF res.err = Nil /\ Len(res.out) > Len(view) THEN res.out ELSE view
        /\ UNCHANGED <<delivered, resets>>

\* the byte order changes between a Peek that left the widest value pending
\* and the read that follows it
TypedSetByteOrder ==
    /\ last.op = "Peek" /\ last.err = Nil /\ Pending >= 8
    /\ DoSetByteOrder

NextTyped ==
    \/ DoReadByte
    \/ DoReadUint16
    \/ DoReadUint32
    \/ DoReadUint64
    \/ DoReadFloat32
    \/ DoReadFloat64
    \/ TypedPeek
    \/ TypedSetByteOrder

SpecTyped == InitWide /\ [][NextTyped]_vars

\* C36: ReadByte and the typed reads go through the peek merge.  With at
\* least w peeked bytes pending, ReadByte (w = 1), ReadUint16 (w = 2),
\* ReadUint32/ReadFloat32 (w = 4) and ReadUint64/ReadFloat64 (w = 8) succeed,
\* take exactly the first w pending bytes (those the Peek returned first),
\* decode them under the current byte order, advance the position and
\* peekPos by w and do not read from the source.
TypedFromPeek ==
    [][(/\ last'.op \in TypedReads \cup {"ReadByte"}
        /\ (last'.op \in TypedReads => bo # Nil)
        /\ Pending >= last'.n)
       => LET w == last'.n IN
          /\ w = CASE last'.op = "ReadByte" -> 1
                   [] last'.op = "ReadUint16" -> 2
                   [] last'.op \in {"ReadUint32", "ReadFloat32"} -> 4
                   [] OTHER -> 8
          /\ last'.err = Nil
          /\ last'.out = SubSeq(peekBuffer, peekPos + 1, peekPos + w)
          /\ last'.out = SubSeq(SrcData(source), pos + 1, pos + w)
          /\ Len(view) >= w => last'.out = SubSeq(view, 1, w)
          /\ last'.op \in TypedReads
             => /\ Len(last'.val) = w
                /\ \A i \in 1..w :
                      last'.val[i] = IF bo = "LE" THEN last'.out[w + 1 - i]
                                                  ELSE last'.out[i]
          /\ pos' = pos + w
          /\ peekPos' = peekPos + w
          /\ nPeeked' = nPeeked
          /\ peekBuffer' = peekBuffer
          /\ source'.off = source.off
          /\ bo' = bo
      ]_vars

\* a byte read, eight bytes peeked, the byte order changed to little-endian
\* and the eight bytes read as one value
TypedFromPeekWitness ==
    /\ last.op = "ReadUint64" /\ last.err = Nil
    /\ last.pend0 = 8 /\ last.pos0 = 1 /\ last.bo = "LE"
    /\ pos = 9 /\ peekPos = nPeeked /\ nPeeked = 8 /\ source.off = 9
    /\ last.val = Reverse(SubSeq(SrcData(source), 2, 9))

(***************************************************************************)
(* Runs of real reads of every kind on the stream of TestGetPosition, long *)
(* enough for the reads of every width to succeed one after another, with  *)
(* Peeks, successful or failed, anywhere between them.  In these runs      *)
(* `total` sums the byte counts of the real reads while every real read    *)
(* has succeeded; a Peek leaves it alone whatever it returns.  A run ends  *)
(* with the first real read that fails.                                    *)
(***************************************************************************)
\* the length of the stream of TestGetPosition
SumSrc == 16
\* number of peeked bytes from which on a run makes no further Peek
MaxPeeked == 2

InitSum == Start({NewReader(Stream(1, SumSrc), "LE")})

SumRead ==
    /\ total.clean
    /\ \/ DoReadByte
       \/ DoReadBytes
       \/ DoReadUint16
       \/ DoReadUint32
       \/ DoReadUint64
       \/ DoReadFloat32
       \/ DoReadFloat64

SumDiscard ==
    /\ total.clean
    /\ \E c \in Chunks, n \in 0..(MaxLen + 1) :
          RealRead("Discard", n, Discard(SelfChunk(c), n))

SumPeek ==
    /\ total.clean /\ nPeeked < MaxPeeked
    /\ \E c \in Chunks, L \in (0..MaxLen) \cup {8} :
          LET res == Peek(SelfChunk(c), L) IN
          /\ Install(res.b)
          /\ last' = Call("Peek", L, res)
          /\ view' = IF res.err = Nil /\ Len(res.out) > Len(view) THEN res.out ELSE view
          /\ UNCHANGED <<delivered, total, resets>>

NextSum == SumRead \/ SumDiscard \/ SumPeek

SpecSum == InitSum /\ [][NextSum]_vars

====
